---- MODULE Spec2Model ----
(***************************************************************************)
(* start.py of AVR-VMC: the compose-manifest generator and the supervision *)
(* of the orchestration child process, with utils.check_sudo.              *)
(*                                                                         *)
(* A service descriptor is the Python dict the builder assembles: a        *)
(* function from its keys to their values, so that "image" \in DOMAIN d    *)
(* says that the dict has the key.  f-strings over module constants are    *)
(* written as the strings they evaluate to; the " ".join of the mavp2p     *)
(* command is kept as the sequence of its endpoints.                       *)
(***************************************************************************)
EXTENDS Integers, Sequences, FiniteSets, Bags, TLC

----------------------------------------------------------------------------
(* Bounds of the model *)

\* at most this many module names are given explicitly on the command line
\* in the behaviours of SpecTopology
MaxExplicit == 1

\* at most this many module names are given explicitly in the behaviours
\* of Spec (the whole invocation, child process and interrupts included)
MaxExplicitRun == 1

\* at most this many of the probed host resources are absent in the
\* behaviours of Spec
MaxAbsentRun == 0

\* the hardware facts that can be false where the command line is built
MaxAbsentCommand == 1

\* install.py: the longest file, in characters, the longest line without
\* its newline, and the number of calls of add_line_to_file on one file
MaxFileLen == 3
MaxLineLen == 1
MaxCalls == 2

\* at most this many interactive interrupts reach the process
MaxSigints == 2

----------------------------------------------------------------------------
(* Module constants of start.py *)

MQTT_HOST == "mqtt"
MQTT_PORT == 18830
FCC_SERIAL_DEVICE == "/dev/ttyTHS1"
FCC_SERIAL_BAUD_RATE == 500000
MAVLINK_TCP_1 == 5760
MAVLINK_UDP_1 == 14541
MAVLINK_UDP_2 == 14542
PCC_SERIAL_DEVICE == "/dev/ttyACM0"
PCC_SERIAL_BAUD_RATE == 115200
PX4_HOME_LAT == "32.808549"
PX4_HOME_LON == "-97.156345"
PX4_HOME_ALT == "161.5"
DOCKER_PROJECT_NAME == "avr"
ACTION_CHOCIES == {"run", "build", "pull", "stop"}

min_modules == {"fcm", "fusion", "mavp2p", "mqtt", "vio"}
norm_modules == min_modules \cup {"apriltag", "pcm", "status", "thermal"}
\* the all group built from the minimal group instead of the normal one
all_modules_from_min == min_modules \cup {"sandbox"}

all_modules == norm_modules \cup {"sandbox"}

\* the names a user can pass as modules: the ones some builder or group knows
ModuleNames == all_modules \cup {"simulator"}

----------------------------------------------------------------------------
(* Host facts: what the probes of the builders return *)

HardwareFacts ==
    {"fcc", "pcc", "argus", "nvlib", "sandbox_dir", "nvpmodel_conf", "nvpmodel"}
SimulatorFacts == {"display_env", "ip_route"}
Facts == HardwareFacts \cup SimulatorFacts

\* the facts an invocation with module list m can read on this platform
ProbedFacts(m, plat) ==
    {"fcc"}
      \cup (IF "apriltag" \in m THEN {"argus", "nvlib"} ELSE {})
      \cup (IF "pcm" \in m THEN {"pcc"} ELSE {})
      \cup (IF "sandbox" \in m THEN {"sandbox_dir"} ELSE {})
      \cup (IF "status" \in m THEN {"nvpmodel_conf", "nvpmodel"} ELSE {})
      \cup (IF "simulator" \in m /\ plat # "win32" THEN SimulatorFacts ELSE {})

\* every combination of the facts the invocation can read, with at most
\* maxAbsent of the hardware facts false; a fact it cannot read stays TRUE
HostFacts(m, plat, maxAbsent) ==
    {[f \in Facts |-> f \notin absent] :
        absent \in {a \in SUBSET ProbedFacts(m, plat) :
                       Cardinality(a \cap HardwareFacts) <= maxAbsent}}

----------------------------------------------------------------------------
(* The builders.  Each takes the state of prepare_compose_file so far,     *)
(*   st = [services |-> compose_services, warnings |-> the warnings        *)
(*         emitted, status |-> "ok" or the way the process ended]          *)
(* and returns the state after the call.                                   *)

\* compose_services[name] = data
Put(st, name, data) ==
    [st EXCEPT !.services =
        [n \in DOMAIN st.services \cup {name} |->
            IF n = name THEN data ELSE st.services[n]]]

\* warnings.warn(message); module is the module the message names
Warn(st, module, message) ==
    [st EXCEPT !.warnings = @ \cup {[module |-> module, message |-> message]}]

\* the else branch lost: the image reference is set whatever local is
WithSourceNoElse(data, local, dir, image) ==
    IF local THEN [build |-> dir] @@ ([image |-> image] @@ data)
    ELSE [image |-> image] @@ data

\* if local: data["build"] = dir  else: data["image"] = image
WithSource(data, local, dir, image) ==
    IF local THEN [build |-> dir] @@ data ELSE [image |-> image] @@ data

\* the port entry lost from the environment literal
BrokerEnvHostOnly == [MQTT_HOST |-> MQTT_HOST]

BrokerEnv == [MQTT_HOST |-> MQTT_HOST, MQTT_PORT |-> MQTT_PORT]

apriltag_service(st, action, h) ==
    LET apriltag_data ==
            [depends_on |-> <<"mqtt">>,
             build |-> "modules/apriltag",
             restart |-> "on-failure",
             environment |-> BrokerEnv,
             volumes |-> <<"/tmp/argus_socket:/tmp/argus_socket">>]
    IN  IF ~h["argus"] /\ action = "run"
        THEN Warn(st, "apriltag",
                  "Argus socket /tmp/argus_socket does not exist, cannot run Apriltag, skipping")
        ELSE IF ~h["nvlib"] /\ action = "build"
        THEN Warn(st, "apriltag",
                  "Nvidia libraries do not exist, cannot build Apriltag, skipping")
        ELSE Put(st, "apriltag", apriltag_data)

fcm_service(st, local) ==
    LET fcm_data ==
            [depends_on |-> <<"mqtt", "mavp2p">>,
             restart |-> "on-failure",
             environment |-> BrokerEnv]
    IN  Put(st, "fcm",
            WithSource(fcm_data, local, "modules/fcm",
                       "ghcr.io/bellflight/avr/flightcontrol:latest"))

fusion_service(st, local) ==
    LET fusion_data ==
            [depends_on |-> <<"mqtt", "vio">>,
             restart |-> "on-failure",
             environment |->
                 [MQTT_HOST |-> MQTT_HOST,
                  MQTT_PORT |-> MQTT_PORT,
                  PX4_HOME_LAT |-> PX4_HOME_LAT,
                  PX4_HOME_LON |-> PX4_HOME_LON,
                  PX4_HOME_ALT |-> PX4_HOME_ALT]]
    IN  Put(st, "fusion",
            WithSource(fusion_data, local, "modules/fusion",
                       "ghcr.io/bellflight/avr/fusion:latest"))

\* the device check moved out of the "if not simulator" block
mavp2p_skipped_in_simulator(action, simulator, h) ==
    ~h["fcc"] /\ action = "run"

\* lines 154-167: cannot run without FCC plugged in; the check is made only
\* when not in simulator
mavp2p_skipped(action, simulator, h) ==
    ~simulator /\ ~h["fcc"] /\ action = "run"

\* "if not simulator" lost from the serial block: the serial endpoint and
\* the device mount are added whatever simulator is
mavp2p_service_serial_always(st, action, local, simulator, h) ==
    LET base ==
            [restart |-> "on-failure",
             ports |-> <<"5760:5760/tcp">>,
             command |-> <<"tcps:0.0.0.0:5760", "udpc:fcm:14541", "udpc:fcm:14542">>,
             environment |->
                 [MAVLINK_UDP_1 |-> MAVLINK_UDP_1, MAVLINK_UDP_2 |-> MAVLINK_UDP_2]]
        withSim ==
            IF simulator
            THEN [base EXCEPT !.command = Append(@, "udps:0.0.0.0:14540"),
                              !.ports = Append(@, "14540:14540/udp")]
            ELSE base
        mavp2p_data ==
            [devices |-> <<"/dev/ttyTHS1:/dev/ttyTHS1">>]
              @@ [withSim EXCEPT !.command = <<"serial:/dev/ttyTHS1:500000">> \o @]
    IN  IF mavp2p_skipped(action, simulator, h)
        THEN Warn(st, "mavp2p",
                  "FCC serial device /dev/ttyTHS1 does not exist, cannot run mavp2p, skipping")
        ELSE Put(st, "mavp2p",
                 WithSource(mavp2p_data, local, "modules/mavp2p",
                            "ghcr.io/bellflight/avr/mavp2p:latest"))

mavp2p_service(st, action, local, simulator, h) ==
    LET base ==
            [restart |-> "on-failure",
             ports |-> <<"5760:5760/tcp">>,
             command |-> <<"tcps:0.0.0.0:5760", "udpc:fcm:14541", "udpc:fcm:14542">>,
             environment |->
                 [MAVLINK_UDP_1 |-> MAVLINK_UDP_1, MAVLINK_UDP_2 |-> MAVLINK_UDP_2]]
        withSim ==
            IF simulator
            THEN [base EXCEPT !.command = Append(@, "udps:0.0.0.0:14540"),
                              !.ports = Append(@, "14540:14540/udp")]
            ELSE base
        mavp2p_data ==
            IF ~simulator
            THEN [devices |-> <<"/dev/ttyTHS1:/dev/ttyTHS1">>]
                   @@ [withSim EXCEPT
                         !.command = <<"serial:/dev/ttyTHS1:500000">> \o @]
            ELSE withSim
    IN  IF mavp2p_skipped(action, simulator, h)
        THEN Warn(st, "mavp2p",
                  "FCC serial device /dev/ttyTHS1 does not exist, cannot run mavp2p, skipping")
        ELSE Put(st, "mavp2p",
                 WithSource(mavp2p_data, local, "modules/mavp2p",
                            "ghcr.io/bellflight/avr/mavp2p:latest"))

mqtt_service(st, local) ==
    LET mqtt_data ==
            [ports |-> <<"18830:18830/tcp">>,
             environment |-> [MQTT_PORT |-> MQTT_PORT],
             restart |-> "on-failure"]
    IN  Put(st, "mqtt",
            WithSource(mqtt_data, local, "modules/mqtt",
                       "ghcr.io/bellflight/avr/mosquitto:latest"))

\* the "not" of the condition lost
pcm_skipped_inverted(action, h) == h["pcc"] /\ action = "run"

\* line 210: cannot run without PCC plugged in
\* the action test lost: a missing device skips pcm under every action
pcm_skipped_any_action(action, h) == ~h["pcc"]

pcm_skipped(action, h) == ~h["pcc"] /\ action = "run"

pcm_service(st, action, local, h) ==
    LET pcm_data ==
            [depends_on |-> <<"mqtt">>,
             restart |-> "on-failure",
             devices |-> <<"/dev/ttyACM0:/dev/ttyACM0">>,
             environment |->
                 [MQTT_HOST |-> MQTT_HOST,
                  MQTT_PORT |-> MQTT_PORT,
                  PCC_SERIAL_DEVICE |-> PCC_SERIAL_DEVICE,
                  PCC_SERIAL_BAUD_RATE |-> PCC_SERIAL_BAUD_RATE]]
    IN  IF pcm_skipped(action, h)
        THEN Warn(st, "pcm",
                  "PCC serial device /dev/ttyACM0 does not exist, cannot run pcm, skipping")
        ELSE Put(st, "pcm",
                 WithSource(pcm_data, local, "modules/pcm",
                            "ghcr.io/bellflight/avr/peripheralcontrol:latest"))

sandbox_service(st, h) ==
    LET sandbox_data ==
            [depends_on |-> <<"mqtt">>,
             build |-> "modules/sandbox",
             restart |-> "on-failure",
             environment |-> BrokerEnv]
    IN  IF ~h["sandbox_dir"]
        THEN Warn(st, "sandbox", "Sandbox directory does not exist, skipping")
        ELSE Put(st, "sandbox", sandbox_data)

\* the os.name check left out
simulator_failure_any_os(plat, h) ==
    IF ~h["display_env"] THEN "KeyError"
    ELSE IF ~h["ip_route"] THEN "OSError"
    ELSE "ok"

\* os.name != "posix" ends the process with sys.exit(1) ("not_posix"); a
\* display variable missing from os.environ raises KeyError, and
\* get_ip_address raises OSError when the socket cannot be connected: both
\* are uncaught
simulator_failure(plat, h) ==
    IF plat = "win32" THEN "not_posix"
    ELSE IF ~h["display_env"] THEN "KeyError"
    ELSE IF ~h["ip_route"] THEN "OSError"
    ELSE "ok"

simulator_service(st, local, plat, h) ==
    LET simulator_data ==
            [tty |-> TRUE,
             stdin_open |-> TRUE,
             environment |->
                 [DISPLAY |-> "env:DISPLAY",
                  WAYLAND_DISPLAY |-> "env:WAYLAND_DISPLAY",
                  XDG_RUNTIME_DIR |-> "env:XDG_RUNTIME_DIR",
                  PULSE_SERVER |-> "env:PULSE_SERVER",
                  PX4_HOME_LAT |-> PX4_HOME_LAT,
                  PX4_HOME_LON |-> PX4_HOME_LON,
                  PX4_HOME_ALT |-> PX4_HOME_ALT,
                  DOCKER_HOST |-> "get_ip_address()"],
             volumes |-> <<"/tmp/.X11-unix:/tmp/.X11-unix", "/mnt/wslg:/mnt/wslg">>]
    IN  IF simulator_failure(plat, h) # "ok"
        THEN [st EXCEPT !.status = simulator_failure(plat, h)]
        ELSE Put(st, "simulator",
                 WithSource(simulator_data, local, "modules/simulator",
                            "ghcr.io/bellflight/avr/simulator:latest"))

status_service(st, action, local, h) ==
    LET status_data ==
            [depends_on |-> <<"mqtt">>,
             restart |-> "on-failure",
             privileged |-> TRUE,
             environment |-> BrokerEnv,
             volumes |-> <<"/etc/nvpmodel.conf:/app/nvpmodel.conf",
                           "which(nvpmodel):/app/nvpmodel">>]
    IN  IF (~h["nvpmodel_conf"] \/ ~h["nvpmodel"]) /\ action = "run"
        THEN Warn(st, "status",
                  "nvpmodel could not be found, cannot run status, skipping")
        ELSE Put(st, "status",
                 WithSource(status_data, local, "modules/status",
                            "ghcr.io/bellflight/avr/status:latest"))

thermal_service(st, local) ==
    LET thermal_data ==
            [depends_on |-> <<"mqtt">>,
             restart |-> "on-failure",
             privileged |-> TRUE,
             environment |-> BrokerEnv]
    IN  Put(st, "thermal",
            WithSource(thermal_data, local, "modules/thermal",
                       "ghcr.io/bellflight/avr/thermal:latest"))

vio_service(st, local) ==
    LET vio_data ==
            [depends_on |-> <<"mqtt">>,
             restart |-> "on-failure",
             privileged |-> TRUE,
             environment |-> BrokerEnv,
             volumes |-> <<"modules/vio/settings:/usr/local/zed/settings/">>]
    IN  Put(st, "vio",
            WithSource(vio_data, local, "modules/vio",
                       "ghcr.io/bellflight/avr/visual:latest"))

\* prepare_compose_file up to the dict it is about to dump: the builders
\* called in the order of the source
ComposeServices(action, modules, local, plat, h) ==
    LET simulator == "simulator" \in modules
        s0 == [services |-> << >>, warnings |-> {}, status |-> "ok"]
        s1 == mqtt_service(s0, local)
        s2 == mavp2p_service(s1, action, local, simulator, h)
        s3 == IF "apriltag" \in modules THEN apriltag_service(s2, action, h) ELSE s2
        s4 == IF "fcm" \in modules THEN fcm_service(s3, local) ELSE s3
        s5 == IF "fusion" \in modules THEN fusion_service(s4, local) ELSE s4
        s6 == IF "pcm" \in modules THEN pcm_service(s5, action, local, h) ELSE s5
        s7 == IF "sandbox" \in modules THEN sandbox_service(s6, h) ELSE s6
        s8 == IF "status" \in modules THEN status_service(s7, action, local, h) ELSE s7
        s9 == IF "thermal" \in modules THEN thermal_service(s8, local) ELSE s8
        s10 == IF "vio" \in modules THEN vio_service(s9, local) ELSE s9
    IN  IF simulator THEN simulator_service(s10, local, plat, h) ELSE s10

----------------------------------------------------------------------------
(* The invocation: python start.py [-l] action [modules] [-m | -n | -a] *)

VARIABLES
    pc,             \* where the process is: "check_sudo", "sudo", "parse_args",
                    \* "main", "command", "popen", "signal", "wait", "exited"
    platform,       \* sys.platform: "linux" or "win32" (os.name is "posix" on
                    \* the first and "nt" on the second)
    euid,           \* os.geteuid()
    argv,           \* the parsed command line; argv.modules is the list of
                    \* module names as typed, a bag: the code never reads
                    \* the order of the list
    args_modules,   \* args.modules in __main__, a bag of names
    modules,        \* the names in the list main receives
    host,           \* the host facts
    tools,          \* the compose tools of the host, seen when main probes them
    manifest,       \* the content of docker-compose.yml
    wrote,          \* this invocation has written docker-compose.yml
    warnings,       \* the warnings this invocation has emitted
    docker_compose, \* the list docker_compose of main
    cmd,            \* the list cmd of main
    proc,           \* the orchestration child: "none", "running", "exited"
    child_rc,       \* how the child ended: its exit code, or -N for signal N
    handler,        \* the SIGINT handler: "default" or "signal_handler"
    delivered,      \* for each SIGINT delivered to the process, the state
                    \* of the child at that moment
    forwarded,      \* the signals sent to the child with proc.send_signal
    exit_code,      \* the exit status of the process, -1 while it runs
    outcome,        \* how the process ended: "sys.exit", the exception that
                    \* ended it (caught or not), or "not_posix" for the
                    \* sys.exit(1) of simulator_service
    file_history,   \* install.py: the contents of the file add_line_to_file
                    \* is called on, the initial one first, then the
                    \* content after each call
    line            \* install.py: the line add_line_to_file is called with

\* the variables of install.py
install_vars == <<file_history, line>>

\* the variables of start.py
start_vars == <<pc, platform, euid, argv, args_modules, modules, host, tools,
                manifest, wrote, warnings, docker_compose, cmd, proc, child_rc,
                handler, delivered, forwarded, exit_code, outcome>>

vars == <<start_vars, install_vars>>

\* sys.exit(n) and the exit status the operating system keeps of it
ExitStatus(n) == n % 256

\* how the child can end: exit codes, and -9 for a child killed by SIGKILL
ChildReturnCodes == {0, 1, -9}

\* what subprocess.run of sudo can return: the elevated run's status, or 1
\* when sudo refuses
SudoReturnCodes == {0, 1}

\* the list l as a bag
ListToBag(l) ==
    [x \in {l[i] : i \in DOMAIN l} |-> Cardinality({i \in DOMAIN l : l[i] = x})]

\* lines 564-575: the group flag adds its modules to the explicit ones
\* (list +=), no flag and no module selects the normal group
ArgsModules(a) ==
    IF a.group = "min" THEN a.modules (+) SetToBag(min_modules)
    ELSE IF a.group = "norm" THEN a.modules (+) SetToBag(norm_modules)
    ELSE IF a.group = "all" THEN a.modules (+) SetToBag(all_modules)
    ELSE IF a.modules = EmptyBag THEN SetToBag(norm_modules)
    ELSE a.modules

\* the list(set()) left out
KeepDuplicates(b) == b

\* line 577: list(set(args.modules)), remove duplicates
RemoveDuplicates(b) == SetToBag(BagToSet(b))

\* the names of the list main is called with
ParsedModules(a) == BagToSet(RemoveDuplicates(ArgsModules(a)))

\* the command lines with at most maxExplicit module names, which a user
\* can repeat
Argv(maxExplicit) ==
    [action : ACTION_CHOCIES,
     modules : {ListToBag(l) : l \in UNION {[1..n -> ModuleNames] : n \in 0..maxExplicit}},
     group : {"none", "min", "norm", "all"},
     local : BOOLEAN]

NoManifest == [version |-> "", services |-> << >>]
NoCmd == [tool |-> << >>, options |-> << >>, verb |-> << >>, names |-> {}]
ToolsUnprobed ==
    [docker |-> "unprobed", compose |-> "unprobed", docker_compose |-> "unprobed"]

\* the hosts main can find: "docker compose --help" cannot succeed without
\* the docker executable
ToolFacts ==
    {t \in [docker : {"present", "absent"},
            compose : {"present", "absent"},
            docker_compose : {"present", "absent"}] :
        t.docker = "absent" => t.compose = "absent"}

InitWith(accounts, maxExplicit, maxAbsent) ==
    /\ pc = "check_sudo"
    /\ \E acc \in accounts :
        /\ platform = acc[1]
        /\ euid = acc[2]
    /\ argv \in Argv(maxExplicit)
    /\ host \in HostFacts(ParsedModules(argv), platform, maxAbsent)
    /\ args_modules = argv.modules
    /\ modules = {}
    /\ tools = ToolsUnprobed
    /\ manifest = NoManifest
    /\ wrote = FALSE
    /\ warnings = {}
    /\ docker_compose = << >>
    /\ cmd = NoCmd
    /\ proc = "none"
    /\ child_rc = 0
    /\ handler = "default"
    /\ delivered = << >>
    /\ forwarded = << >>
    /\ exit_code = -1
    /\ outcome = "running"
    /\ file_history = << >>
    /\ line = << >>

\* the process ends with status n
Exit(n, how) ==
    /\ pc' = "exited"
    /\ exit_code' = ExitStatus(n)
    /\ outcome' = how

----------------------------------------------------------------------------
(* utils.check_sudo *)

\* lines 8-11: nothing to do on Windows or as root
CheckSudoReturn ==
    /\ pc = "check_sudo"
    /\ platform = "win32" \/ euid = 0
    /\ pc' = "parse_args"
    /\ UNCHANGED <<platform, euid, argv, modules, host, tools, manifest, wrote,
                   warnings, docker_compose, cmd, proc, child_rc, handler,
                   delivered, forwarded, exit_code, outcome>>
    /\ UNCHANGED <<args_modules, install_vars>>

\* the exit code check_sudo passes to sys.exit when subprocess.run raises
\* PermissionError
PermissionErrorCode == 0

\* lines 11-25: subprocess.run starts sudo, or raises: PermissionError is
\* caught, FileNotFoundError (no sudo on the host) is not
CheckSudoElevate ==
    /\ pc = "check_sudo"
    /\ platform # "win32" /\ euid # 0
    /\ \E r \in {"started", "PermissionError", "FileNotFoundError"} :
        IF r = "started"
        THEN /\ pc' = "sudo"
             /\ UNCHANGED <<exit_code, outcome>>
        ELSE IF r = "PermissionError"
        THEN Exit(PermissionErrorCode, "PermissionError")
        ELSE Exit(1, "FileNotFoundError")
    /\ UNCHANGED <<platform, euid, argv, modules, host, tools, manifest, wrote,
                   warnings, docker_compose, cmd, proc, child_rc, handler,
                   delivered, forwarded>>
    /\ UNCHANGED <<args_modules, install_vars>>

\* lines 16-21: sudo returns and the process exits with its return code
SudoReturns ==
    /\ pc = "sudo"
    /\ \E r \in SudoReturnCodes : Exit(r, "sys.exit")
    /\ UNCHANGED <<platform, euid, argv, modules, host, tools, manifest, wrote,
                   warnings, docker_compose, cmd, proc, child_rc, handler,
                   delivered, forwarded>>
    /\ UNCHANGED <<args_modules, install_vars>>

----------------------------------------------------------------------------
(* __main__ and main *)

ParseArgs ==
    /\ pc = "parse_args"
    /\ args_modules' = RemoveDuplicates(ArgsModules(argv))
    /\ modules' = BagToSet(args_modules')
    /\ pc' = "main"
    /\ UNCHANGED <<platform, euid, argv, host, tools, manifest, wrote,
                   warnings, docker_compose, cmd, proc, child_rc, handler,
                   delivered, forwarded, exit_code, outcome>>
    /\ UNCHANGED install_vars

\* the file opened without truncation: what it held stays under the keys
\* the new data does not have
WrittenKeeping(previous, compose_data) ==
    [version |-> compose_data.version,
     services |-> compose_data.services @@ previous.services]

\* lines 460-461: open(compose_file, "w") discards the previous content,
\* yaml.dump writes compose_data
Written(previous, compose_data) == compose_data

\* prepare_compose_file: the builders run; the file is opened for writing
\* and the dict dumped only when none of them ended the process
PrepareComposeFile ==
    /\ pc = "main"
    /\ LET r == ComposeServices(argv.action, modules, argv.local, platform, host)
       IN  /\ warnings' = r.warnings
           /\ IF r.status = "ok"
              THEN /\ manifest' =
                        Written(manifest, [version |-> "3", services |-> r.services])
                   /\ wrote' = TRUE
                   /\ pc' = "command"
                   /\ UNCHANGED <<exit_code, outcome>>
              ELSE /\ Exit(1, r.status)
                   /\ UNCHANGED <<manifest, wrote>>
    /\ UNCHANGED <<platform, euid, argv, modules, host, tools,
                   docker_compose, cmd, proc, child_rc, handler,
                   delivered, forwarded>>
    /\ UNCHANGED <<args_modules, install_vars>>

\* the name used without looking it up
WhichUnchecked(fact, path) == path

\* shutil.which: the path, or None
Which(fact, path) == IF fact = "present" THEN path ELSE "None"

\* lines 490-500
Verb(action) ==
    IF action = "build" THEN <<"build">>
    ELSE IF action = "pull" THEN <<"pull">>
    ELSE IF action = "run" THEN <<"up", "--remove-orphans", "--force-recreate">>
    ELSE <<"down", "--remove-orphans", "--volumes">>

\* the module names appended under every action
VerbNamesAlways(action, m) == m

VerbNames(action, m) == IF action = "stop" THEN {} ELSE m

\* lines 476-485: the list docker_compose after the probe, or <<>> when
\* subprocess.run raised TypeError on the None that stands for docker
SelectTool(t) ==
    IF t.docker = "absent" THEN << >>
    ELSE IF t.compose = "present" THEN <<"docker", "compose">>
    ELSE <<Which(t.docker_compose, "docker-compose")>>

\* lines 476-502: probe the tools, build cmd, print it; " ".join(cmd) raises
\* TypeError when which("docker-compose") was None
BuildCommand ==
    /\ pc = "command"
    /\ \E t \in ToolFacts :
        LET dc == SelectTool(t)
        IN  /\ tools' = t
            /\ docker_compose' = dc
            /\ IF dc = << >>
               THEN /\ Exit(1, "TypeError")
                    /\ UNCHANGED cmd
               ELSE /\ cmd' = [tool |-> dc,
                               options |-> <<"--project-name", DOCKER_PROJECT_NAME,
                                             "--file", "docker-compose.yml">>,
                               verb |-> Verb(argv.action),
                               names |-> VerbNames(argv.action, modules)]
                    /\ IF dc = <<"None">>
                       THEN Exit(1, "TypeError")
                       ELSE /\ pc' = "popen"
                            /\ UNCHANGED <<exit_code, outcome>>
    /\ UNCHANGED <<platform, euid, argv, modules, host, manifest, wrote,
                   warnings, proc, child_rc, handler, delivered, forwarded>>
    /\ UNCHANGED <<args_modules, install_vars>>

\* line 503
Popen ==
    /\ pc = "popen"
    /\ proc' = "running"
    /\ pc' = "signal"
    /\ UNCHANGED <<platform, euid, argv, modules, host, tools, manifest, wrote,
                   warnings, docker_compose, cmd, child_rc, handler,
                   delivered, forwarded, exit_code, outcome>>
    /\ UNCHANGED <<args_modules, install_vars>>

\* line 511
InstallHandler ==
    /\ pc = "signal"
    /\ handler' = "signal_handler"
    /\ pc' = "wait"
    /\ UNCHANGED <<platform, euid, argv, modules, host, tools, manifest, wrote,
                   warnings, docker_compose, cmd, proc, child_rc,
                   delivered, forwarded, exit_code, outcome>>
    /\ UNCHANGED <<args_modules, install_vars>>

\* lines 512-514: proc.wait() returns once the child has ended
WaitAndExit ==
    /\ pc = "wait"
    /\ proc = "exited"
    /\ Exit(child_rc, "sys.exit")
    /\ UNCHANGED <<platform, euid, argv, modules, host, tools, manifest, wrote,
                   warnings, docker_compose, cmd, proc, child_rc, handler,
                   delivered, forwarded>>
    /\ UNCHANGED <<args_modules, install_vars>>

----------------------------------------------------------------------------
(* The environment: the child ends, the user presses Ctrl-C *)

ChildExits ==
    /\ proc = "running"
    /\ proc' = "exited"
    /\ \E rc \in ChildReturnCodes : child_rc' = rc
    /\ UNCHANGED <<pc, platform, euid, argv, modules, host, tools, manifest,
                   wrote, warnings, docker_compose, cmd, handler,
                   delivered, forwarded, exit_code, outcome>>
    /\ UNCHANGED <<args_modules, install_vars>>

\* lines 505-509
ForwardedSignal(plat) == IF plat = "win32" THEN "CTRL_BREAK_EVENT" ELSE "SIGINT"

\* SIGINT reaches the process.  With signal_handler installed the handler
\* runs (send_signal does nothing for a child that has ended) and the
\* interrupted call resumes.  With the default handler KeyboardInterrupt is
\* raised: check_sudo catches it around subprocess.run and exits 1, main
\* does not catch it and the interpreter ends with the status of SIGINT.
Sigint ==
    /\ pc # "exited"
    /\ Len(delivered) < MaxSigints
    /\ delivered' = Append(delivered, proc)
    /\ IF handler = "signal_handler"
       THEN /\ forwarded' = IF proc = "running"
                            THEN Append(forwarded, ForwardedSignal(platform))
                            ELSE forwarded
            /\ UNCHANGED <<pc, exit_code, outcome>>
       ELSE /\ IF pc = "sudo"
               THEN Exit(1, "KeyboardInterrupt")
               ELSE Exit(130, "KeyboardInterrupt")
            /\ UNCHANGED forwarded
    /\ UNCHANGED <<platform, euid, argv, modules, host, tools, manifest, wrote,
                   warnings, docker_compose, cmd, proc, child_rc, handler>>
    /\ UNCHANGED <<args_modules, install_vars>>

----------------------------------------------------------------------------
(* Specifications *)

Accounts == {<<"linux", 0>>, <<"linux", 1000>>, <<"win32", 0>>}

\* the whole invocation
Init == InitWith(Accounts, MaxExplicitRun, MaxAbsentRun)

Next ==
    \/ CheckSudoReturn
    \/ CheckSudoElevate
    \/ SudoReturns
    \/ ParseArgs
    \/ PrepareComposeFile
    \/ BuildCommand
    \/ Popen
    \/ InstallHandler
    \/ WaitAndExit
    \/ ChildExits
    \/ Sigint

Spec == Init /\ [][Next]_vars

\* the materialization alone: a process that passes check_sudo, every
\* combination of the host facts, up to the written manifest
InitTopology ==
    InitWith({acc \in Accounts : acc[1] = "win32" \/ acc[2] = 0},
             MaxExplicit, Cardinality(HardwareFacts))

NextTopology ==
    \/ CheckSudoReturn
    \/ ParseArgs
    \/ PrepareComposeFile

SpecTopology == InitTopology /\ [][NextTopology]_vars

\* the materialization and the command line built from the same module
\* list, on hosts with missing hardware
InitCommand ==
    InitWith({acc \in Accounts : acc[2] = 0}, MaxExplicitRun, MaxAbsentCommand)

NextCommand ==
    \/ CheckSudoReturn
    \/ ParseArgs
    \/ PrepareComposeFile
    \/ BuildCommand

SpecCommand == InitCommand /\ [][NextCommand]_vars

\* the command lines of the invocations that follow one another: explicit
\* module names, no group option
SequenceArgv == {a \in Argv(MaxExplicitRun) : a.group = "none"}

\* the hosts of the invocations that follow one another: every device and
\* file of HardwareFacts is there, the display facts vary
SequenceHostFacts(m, plat) == HostFacts(m, plat, Cardinality({}))

\* no process: the command line and the host facts of the invocation that
\* ended are forgotten
NoArgv == [action |-> "stop", modules |-> EmptyBag, group |-> "none", local |-> FALSE]
AllPresent == [f \in Facts |-> TRUE]

\* the process is gone; the manifest file is what it and the earlier
\* invocations left.  The steps of main after prepare_compose_file do not
\* touch the file, so the sequence leaves the invocation where
\* prepare_compose_file has returned.
ProcessGone ==
    /\ pc \in {"command", "exited"}
    /\ pc' = "none"
    /\ argv' = NoArgv
    /\ host' = AllPresent
    /\ args_modules' = EmptyBag
    /\ modules' = {}
    /\ wrote' = FALSE
    /\ warnings' = {}
    /\ exit_code' = -1
    /\ outcome' = "running"
    /\ UNCHANGED <<platform, euid, tools, manifest, docker_compose, cmd, proc,
                   child_rc, handler, delivered, forwarded>>
    /\ UNCHANGED install_vars

\* the program is started again on the same machine by the same user, with
\* another command line and another display environment
Reinvoke ==
    /\ pc = "none"
    /\ pc' = "check_sudo"
    /\ argv' \in SequenceArgv
    /\ host' \in SequenceHostFacts(ParsedModules(argv'), platform)
    /\ args_modules' = argv'.modules
    /\ UNCHANGED <<platform, euid, modules, tools, manifest, wrote, warnings,
                   docker_compose, cmd, proc, child_rc, handler, delivered,
                   forwarded, exit_code, outcome>>
    /\ UNCHANGED install_vars

\* a sequence of invocations, each up to the written manifest
InitSequence ==
    /\ InitWith({acc \in Accounts : acc[2] = 0}, MaxExplicitRun, Cardinality({}))
    /\ argv \in SequenceArgv

NextSequence ==
    \/ CheckSudoReturn
    \/ ParseArgs
    \/ PrepareComposeFile
    \/ ProcessGone
    \/ Reinvoke

SpecSequence == InitSequence /\ [][NextSequence]_vars

----------------------------------------------------------------------------
(* install.py: add_line_to_file.  A text is the sequence of its            *)
(* characters; "\n" is the newline.                                        *)

Letters == {"a", "b"}
Characters == Letters \cup {"\n"}

\* the texts of at most n characters
Texts(n) == UNION {[1..k -> Characters] : k \in 0..n}

\* the lines the callers pass (install.py 124, 220-228): no newline inside,
\* one at the end
Lines(n) == {l \o <<"\n">> : l \in UNION {[1..k -> Letters] : k \in 0..n}}

\* the index of the first newline of the non-empty text t, or its length
EndOfFirstLine(t) ==
    IF \E i \in DOMAIN t : t[i] = "\n"
    THEN CHOOSE i \in DOMAIN t : t[i] = "\n" /\ \A j \in 1..(i - 1) : t[j] # "\n"
    ELSE Len(t)

\* fp.readlines(): the lines of the text, each with its newline; the last
\* one has none when the text does not end in one
RECURSIVE readlines(_)
readlines(t) ==
    IF t = << >> THEN << >>
    ELSE <<SubSeq(t, 1, EndOfFirstLine(t))>>
           \o readlines(SubSeq(t, EndOfFirstLine(t) + 1, Len(t)))

\* fp.writelines(lines) on the truncated file: the strings one after another
RECURSIVE writelines(_)
writelines(lines) ==
    IF lines = << >> THEN << >> ELSE Head(lines) \o writelines(Tail(lines))

\* the content of the file after add_line_to_file(filename, new_line), from
\* its content before
add_line_to_file(content, new_line) ==
    LET lines == readlines(content)
    IN  IF new_line \notin {lines[i] : i \in DOMAIN lines}
        THEN writelines(lines \o <<new_line>>)
        ELSE content

\* one call of add_line_to_file on the file, with the same line
AddLineToFile ==
    /\ Len(file_history) <= MaxCalls
    /\ file_history' =
          Append(file_history,
                 add_line_to_file(file_history[Len(file_history)], line))
    /\ UNCHANGED <<line, start_vars>>

\* any file, any line of the callers' form; start.py is not running
InitFile ==
    /\ file_history \in {<<t>> : t \in Texts(MaxFileLen)}
    /\ line \in Lines(MaxLineLen)
    /\ pc = "none"
    /\ platform = "linux"
    /\ euid = 0
    /\ argv = NoArgv
    /\ host = AllPresent
    /\ args_modules = EmptyBag
    /\ modules = {}
    /\ tools = ToolsUnprobed
    /\ manifest = NoManifest
    /\ wrote = FALSE
    /\ warnings = {}
    /\ docker_compose = << >>
    /\ cmd = NoCmd
    /\ proc = "none"
    /\ child_rc = 0
    /\ handler = "default"
    /\ delivered = << >>
    /\ forwarded = << >>
    /\ exit_code = -1
    /\ outcome = "running"

NextFile == AddLineToFile

SpecFile == InitFile /\ [][NextFile]_vars

----------------------------------------------------------------------------
(* Properties of the written topology *)

Services == DOMAIN manifest.services
Descriptor(n) == manifest.services[n]
Simulator == "simulator" \in modules
DependsOn(n) ==
    IF "depends_on" \in DOMAIN Descriptor(n)
    THEN {Descriptor(n).depends_on[i] : i \in DOMAIN Descriptor(n).depends_on}
    ELSE {}

\* prepare_compose_file ended the process instead of returning
PrepareFailed ==
    pc = "exited" /\ outcome \in {"not_posix", "KeyError", "OSError"} /\ ~wrote

C2_NoDanglingDependency ==
    wrote =>
        /\ \A n \in Services : DependsOn(n) \subseteq Services
        /\ "fcm" \in Services => "mavp2p" \in Services
        /\ "fusion" \in Services => "vio" \in Services

\* the host precondition of a requested module is unmet for this action
ProbeFalse(m) ==
    \/ m = "apriltag" /\ argv.action = "run" /\ ~host["argus"]
    \/ m = "apriltag" /\ argv.action = "build" /\ ~host["nvlib"]
    \/ m = "pcm" /\ argv.action = "run" /\ ~host["pcc"]
    \/ m = "status" /\ argv.action = "run"
         /\ (~host["nvpmodel_conf"] \/ ~host["nvpmodel"])
    \/ m = "sandbox" /\ argv.action \in {"run", "build"} /\ ~host["sandbox_dir"]
    \/ m = "mavp2p" /\ argv.action = "run" /\ ~Simulator /\ ~host["fcc"]

C4_StopPullNeverGated ==
    wrote /\ argv.action \in {"stop", "pull"} =>
        (modules \cup {"mqtt", "mavp2p"}) \subseteq Services

\* C5: every descriptor of a written topology has exactly one of image and
\* build; with local set every descriptor has build, and without it every
\* descriptor but apriltag's and sandbox's has image.
C5_ExactlyOneSource ==
    wrote =>
        \A n \in Services :
            /\ ("image" \in DOMAIN Descriptor(n)) # ("build" \in DOMAIN Descriptor(n))
            /\ argv.local => "build" \in DOMAIN Descriptor(n)
            /\ ~argv.local /\ n \notin {"apriltag", "sandbox"}
                 => "image" \in DOMAIN Descriptor(n)

C5_Witness ==
    /\ wrote
    /\ ~argv.local
    /\ {"apriltag", "sandbox", "fcm", "pcm"} \subseteq Services
    /\ "build" \in DOMAIN Descriptor("apriltag")
    /\ "image" \in DOMAIN Descriptor("fcm")

SimulatorUnsupported ==
    platform = "win32" \/ ~host["display_env"] \/ ~host["ip_route"]

----------------------------------------------------------------------------
(* Properties of the supervision of the child and of the exits *)

\* the interrupts that reached the process while the child was running
InterruptsWhileRunning == {i \in DOMAIN delivered : delivered[i] = "running"}

\* C7: once the child is launched, every SIGINT that reaches the process
\* while the child runs is forwarded to it (CTRL_BREAK_EVENT on win32,
\* SIGINT otherwise), and the process never ends before the child has
\* ended, for every interleaving of the interrupt with the launch, the
\* installation of the handler and the wait.
C7_InterruptsForwarded ==
    /\ Len(forwarded) = Cardinality(InterruptsWhileRunning)
    /\ \A i \in DOMAIN forwarded : forwarded[i] = ForwardedSignal(platform)
    /\ pc = "exited" /\ proc # "none" => proc = "exited"

\* C8: main blocks until the child has ended and then exits with exactly
\* the child's exit code, zero or not, for every action.
C8_ExitsWithChildCode ==
    pc = "exited" /\ proc # "none" =>
        /\ proc = "exited"
        /\ child_rc >= 0 => exit_code = child_rc

\* C9: a process that is not root on a non-Windows host never materializes
\* a topology nor launches the orchestration tool, and when the elevation is
\* denied (PermissionError) or interrupted (KeyboardInterrupt) it exits with
\* a non-zero code.
C9_ElevationFailureNonZero ==
    platform # "win32" /\ euid # 0 =>
        /\ ~wrote
        /\ proc = "none"
        /\ pc \in {"check_sudo", "sudo", "exited"}
        /\ pc = "exited" /\ outcome \in {"PermissionError", "KeyboardInterrupt"}
             => exit_code # 0

\* main has probed the tools and found neither "docker compose" nor
\* docker-compose
NeitherToolAvailable ==
    tools.compose = "absent" /\ tools.docker_compose = "absent"

\* C10 as claimed: with neither tool available the process exits non-zero
\* before any topology action: no manifest written, no child launched.
C10_NoManifestWithoutTool ==
    NeitherToolAvailable =>
        /\ pc = "exited"
        /\ exit_code # 0
        /\ proc = "none"
        /\ ~wrote

\* C10 amended: with neither tool available the process ends with a
\* non-zero status (an uncaught TypeError) and never launches a child; the
\* manifest has been written by then.
C10_NoChildWithoutTool ==
    NeitherToolAvailable =>
        /\ pc = "exited"
        /\ exit_code # 0
        /\ outcome = "TypeError"
        /\ proc = "none"
        /\ wrote

C10_Witness ==
    /\ NeitherToolAvailable
    /\ tools.docker = "present"
    /\ docker_compose = <<"None">>
    /\ pc = "exited"
    /\ wrote

----------------------------------------------------------------------------
(* Properties of the command line and of the module selection *)

\* main has built cmd
CommandBuilt == cmd # NoCmd

\* C11: the command is "<tool> --project-name avr --file <manifest> <verb>
\* <names>", the verb being build, pull, up --remove-orphans
\* --force-recreate, down --remove-orphans --volumes for build, pull, run,
\* stop; stop carries no module name whatever was requested, the other
\* three carry exactly the requested names.
C11_CommandLine ==
    CommandBuilt =>
        /\ cmd.tool = docker_compose
        /\ cmd.tool \in {<<"docker", "compose">>, <<"docker-compose">>, <<"None">>}
        /\ cmd.options = <<"--project-name", "avr", "--file", "docker-compose.yml">>
        /\ argv.action = "build" => cmd.verb = <<"build">>
        /\ argv.action = "pull" => cmd.verb = <<"pull">>
        /\ argv.action = "run"
             => cmd.verb = <<"up", "--remove-orphans", "--force-recreate">>
        /\ argv.action = "stop"
             => cmd.verb = <<"down", "--remove-orphans", "--volumes">>
        /\ argv.action = "stop" => cmd.names = {}
        /\ argv.action # "stop" => cmd.names = modules /\ cmd.names # {}

C11_Witness ==
    /\ CommandBuilt
    /\ pc = "popen"
    /\ argv.action = "stop"
    /\ "pcm" \in modules
    /\ cmd.names = {}
    /\ cmd.tool = <<"docker-compose">>

\* __main__ has computed the module list
ArgsParsed == modules # {}

\* the names typed on the command line
Explicit == BagToSet(argv.modules)

\* C12: the module list passed to main is the duplicate-free union of the
\* explicitly named modules and the modules of the group flag; with no flag
\* and no explicit module it is the normal group, with explicit modules and
\* no flag it is exactly those modules.
C12_ModuleSelection ==
    ArgsParsed =>
        /\ \A m \in BagToSet(args_modules) : CopiesIn(m, args_modules) = 1
        /\ modules = BagToSet(args_modules)
        /\ argv.group = "min" => modules = Explicit \cup min_modules
        /\ argv.group = "norm" => modules = Explicit \cup norm_modules
        /\ argv.group = "all" => modules = Explicit \cup all_modules
        /\ argv.group = "none" /\ Explicit = {} => modules = norm_modules
        /\ argv.group = "none" /\ Explicit # {} => modules = Explicit

C12_Witness ==
    /\ ArgsParsed
    /\ argv.group = "min"
    /\ CopiesIn("fcm", argv.modules) = 1
    /\ CopiesIn("fcm", args_modules) = 1
    /\ modules = min_modules

\* the module lists main can receive from the command lines of SpecTopology
Selections == {ParsedModules(a) : a \in Argv(MaxExplicit)}

\* the result of prepare_compose_file for the module list m, with the
\* action, the local flag and the host facts of this invocation
TopologyOf(m) == ComposeServices(argv.action, m, argv.local, platform, host)

\* this invocation selected --all with no explicit module and has written
\* the manifest
AllSelected == wrote /\ argv.group = "all" /\ Explicit = {}

GroupsAreAChain == min_modules \subseteq norm_modules /\ norm_modules \subseteq all_modules

\* C13 as claimed: minimal, normal, all form a chain, and for fixed action,
\* local flag and host facts the topology of --all contains every service
\* of the topology of any other selection of handled module names.
C13_AllIsLargest ==
    /\ GroupsAreAChain
    /\ AllSelected =>
          \A m \in Selections :
              TopologyOf(m).status = "ok"
                  => DOMAIN TopologyOf(m).services \subseteq Services

\* C13 amended: minimal, normal, all form a chain, and for fixed action,
\* local flag and host facts the topology of --all contains every service
\* of the topology of any selection that does not name simulator.
C13_AllIsLargestWithoutSimulator ==
    /\ GroupsAreAChain
    /\ AllSelected =>
          \A m \in {x \in Selections : "simulator" \notin x} :
              /\ TopologyOf(m).status = "ok"
              /\ DOMAIN TopologyOf(m).services \subseteq Services

C13_Witness ==
    /\ AllSelected
    /\ argv.action = "run"
    /\ ~host["pcc"]
    /\ ~host["fcc"]
    /\ "pcm" \notin Services
    /\ "pcm" \notin DOMAIN TopologyOf(norm_modules).services
    /\ "thermal" \in DOMAIN TopologyOf(norm_modules).services
    /\ {"thermal", "sandbox"} \subseteq Services

\* the environment of descriptor n holds the broker's host and port
HasBrokerEnv(n) ==
    /\ "environment" \in DOMAIN Descriptor(n)
    /\ {"MQTT_HOST", "MQTT_PORT"} \subseteq DOMAIN Descriptor(n).environment
    /\ Descriptor(n).environment["MQTT_HOST"] = MQTT_HOST
    /\ Descriptor(n).environment["MQTT_PORT"] = MQTT_PORT

\* C14 as claimed: every descriptor of every written topology, mqtt, mavp2p
\* and simulator included, has an environment with both MQTT_HOST and
\* MQTT_PORT.
C14_EveryEnvironmentHasBroker == wrote => \A n \in Services : HasBrokerEnv(n)

\* C14 amended: every descriptor other than mqtt, mavp2p and simulator has
\* an environment with both MQTT_HOST and MQTT_PORT; mqtt's has MQTT_PORT
\* only, mavp2p's and simulator's have neither.
C14_ClientEnvironmentsHaveBroker ==
    wrote =>
        /\ \A n \in Services \ {"mqtt", "mavp2p", "simulator"} : HasBrokerEnv(n)
        /\ "mqtt" \in Services
        /\ DOMAIN Descriptor("mqtt").environment = {"MQTT_PORT"}
        /\ Descriptor("mqtt").environment["MQTT_PORT"] = MQTT_PORT
        /\ \A n \in Services \cap {"mavp2p", "simulator"} :
              DOMAIN Descriptor(n).environment \cap {"MQTT_HOST", "MQTT_PORT"} = {}

C14_Witness ==
    /\ wrote
    /\ {"mqtt", "mavp2p", "simulator", "fcm", "fusion", "vio"} \subseteq Services
    /\ HasBrokerEnv("vio")
    /\ ~HasBrokerEnv("mavp2p")
    /\ ~HasBrokerEnv("simulator")
    /\ ~HasBrokerEnv("mqtt")

\* the written manifest holds a service named n
Included(n) == n \in Services

\* C15: in a written topology, under run a requested pcm is included iff
\* the peripheral serial device exists, a requested apriltag iff the camera
\* socket exists, a requested status iff nvpmodel resolves and its
\* configuration file exists; under build a requested pcm and a requested
\* status are always included and a requested apriltag iff the vision
\* library directory exists.
C15_GatingTable ==
    wrote =>
        /\ argv.action = "run" =>
              /\ "pcm" \in modules => (Included("pcm") <=> host["pcc"])
              /\ "apriltag" \in modules => (Included("apriltag") <=> host["argus"])
              /\ "status" \in modules =>
                    (Included("status") <=> (host["nvpmodel"] /\ host["nvpmodel_conf"]))
        /\ argv.action = "build" =>
              /\ "pcm" \in modules => Included("pcm")
              /\ "status" \in modules => Included("status")
              /\ "apriltag" \in modules => (Included("apriltag") <=> host["nvlib"])

C15_Witness ==
    /\ wrote
    /\ argv.action = "build"
    /\ {"pcm", "status", "apriltag"} \subseteq modules
    /\ ~host["pcc"] /\ ~host["nvpmodel"] /\ ~host["argus"] /\ host["nvlib"]
    /\ {"pcm", "status", "apriltag"} \subseteq Services

\* x is one of the elements of the list l
InList(x, l) == \E i \in DOMAIN l : l[i] = x

\* the space-separated words of the mavp2p descriptor's command
RelayCommand == Descriptor("mavp2p").command

\* C16: a written mavp2p descriptor has the endpoint udps:0.0.0.0:14540 and
\* the port 14540/udp iff simulator is requested, has the serial endpoint
\* and the device mount iff simulator is not requested, and has the TCP
\* 5760 port and the two udpc:fcm endpoints in both cases.
C16_RelayEndpoints ==
    (wrote /\ "mavp2p" \in Services) =>
        /\ InList("udps:0.0.0.0:14540", RelayCommand) <=> Simulator
        /\ InList("14540:14540/udp", Descriptor("mavp2p").ports) <=> Simulator
        /\ InList("serial:/dev/ttyTHS1:500000", RelayCommand) <=> ~Simulator
        /\ "devices" \in DOMAIN Descriptor("mavp2p") <=> ~Simulator
        /\ ~Simulator =>
              Descriptor("mavp2p").devices = <<"/dev/ttyTHS1:/dev/ttyTHS1">>
        /\ InList("5760:5760/tcp", Descriptor("mavp2p").ports)
        /\ InList("udpc:fcm:14541", RelayCommand)
        /\ InList("udpc:fcm:14542", RelayCommand)

C16_Witness ==
    /\ wrote
    /\ Simulator
    /\ "mavp2p" \in Services
    /\ RelayCommand =
          <<"tcps:0.0.0.0:5760", "udpc:fcm:14541", "udpc:fcm:14542", "udps:0.0.0.0:14540">>
    /\ Descriptor("mavp2p").ports = <<"5760:5760/tcp", "14540:14540/udp">>
    /\ "devices" \notin DOMAIN Descriptor("mavp2p")

\* C18: for build, pull and run, every module name main appends to the
\* command line it hands to Popen is the name of a service of the manifest
\* the same invocation wrote.
C18_CommandNamesAreServices ==
    (CommandBuilt /\ pc = "popen" /\ argv.action # "stop")
        => cmd.names \subseteq Services

----------------------------------------------------------------------------
(* Properties of a sequence of invocations *)

\* prepare_compose_file of this invocation has returned or the process has
\* ended
InvocationDone == pc \in {"command", "exited"}

\* what prepare_compose_file dumps for the inputs of this invocation
TopologyOfInputs ==
    [version |-> "3", services |-> TopologyOf(ParsedModules(argv)).services]

----------------------------------------------------------------------------
(* Properties of add_line_to_file *)

\* the list p is the beginning of the list l
IsPrefix(p, l) == Len(p) <= Len(l) /\ SubSeq(l, 1, Len(p)) = p

\* C19: for every file and every line, a second call of add_line_to_file
\* leaves the file as the first call left it, the lines the file had are
\* still there unchanged and in order after the first call, and the file
\* is not modified when the line was already one of its lines.
C19_IdempotentAppendOnly ==
    Len(file_history) >= 3 =>
        /\ file_history[3] = file_history[2]
        /\ IsPrefix(readlines(file_history[1]), readlines(file_history[2]))
        /\ (\E i \in DOMAIN readlines(file_history[1]) :
                readlines(file_history[1])[i] = line)
              => file_history[2] = file_history[1]

====
